---------------------------- MODULE Spec2Model ----------------------------
(***************************************************************************)
(* flashfloppy_to_hfe (src/flashfloppy_to_hfe/main.c): one run of main().  *)
(*                                                                         *)
(* The run reads a flux sample file, resolves a decoding strategy from its *)
(* name, invokes it once on the bitcell buffer, checks the decoded bit     *)
(* count against the buffer size and serializes the buffer into an HFE     *)
(* container.  One action of the model is one statement group of main();   *)
(* pc names the next one.                                                  *)
(*                                                                         *)
(* The decoding strategies (fdc9216.h, ff_v341.h, nco_generic.h, ...) are  *)
(* not part of main.c.  The model takes from them only their call          *)
(* contract: a strategy writes the decoded bits, first bit in the most     *)
(* significant bit of the first byte, into the buffer it is handed and     *)
(* returns their count.  What a strategy decodes from the run's samples is *)
(* an input of the run (decoded).                                          *)
(***************************************************************************)
EXTENDS Integers, Sequences, FiniteSets, TLC

VARIABLES
    pc,                 \* the next statement group of main()
    algorithm,          \* argv[4]
    hfe_bit_rate_kbps,  \* strtoul(argv[3])
    hostLE,             \* TRUE on a little-endian host (be32toh swaps)
    decoded,            \* what the strategies decode from this run's samples
    heap_byte,          \* the byte value malloc'ed memory happens to hold
    fail_at,            \* index of the fwrite call the device fails (-1: none)
    ff_sample_fd,       \* "unopened" | "open" | "closed"
    ff_samples,         \* "none" | "allocated" | "freed"
    bc_buf,             \* "none" | "allocated" | "null" | "freed"
    bc_filled,          \* TRUE once the strategy has written its bits
    alg,                \* the strategy selected by the resolution
    invoked,            \* the strategies invoked so far, in order
    bc_prod,            \* the bit count the strategy returned (-1: none yet)
    hfe_fd,             \* "unopened" | "open" | "closed"
    hfe_file,           \* the output file: offset -> byte, on the written offsets
    hfe_pos,            \* the output stream's position
    hfe_nwrites,        \* fwrite calls made on the output stream
    ii,                 \* the serializer's word index
    bits_out,           \* the serializer's last 4 output bytes
    word_pos,           \* where the last data word's fwrite started (-1: none)
    words_stored,       \* indices of the data words that reached the file
    exit_code,          \* -1 while running, then main's return value
    error               \* "" | the failure the run ended with

vars == <<pc, algorithm, hfe_bit_rate_kbps, hostLE, decoded, heap_byte, fail_at,
          ff_sample_fd, ff_samples, bc_buf, bc_filled, alg, invoked, bc_prod,
          hfe_fd, hfe_file, hfe_pos, hfe_nwrites, ii, bits_out, word_pos,
          words_stored, exit_code, error>>

-----------------------------------------------------------------------------
(* Program constants *)

BC_BUF_SIZE_BYTES == 2 * 1024 * 1024

\* ALGS[], without its {NULL, NULL} terminator
ALGS == << "ff_v341", "ff_master", "ff_master_greaseweazle_default_pll",
           "ff_master_greaseweazle_fallback_pll", "fdc9216", "nco_715k",
           "nco_358k", "nco_178k", "nco_1440k_0p2", "nco_1440k_0p25",
           "nco_2160k_0p1", "nco_2160k_0p2", "nco_2160k_0p25",
           "nco_2160k_0p5", "nco_2160k_1p0" >>

-----------------------------------------------------------------------------
(* Bounds of the model *)

\* bit counts 0..MaxBits are decoded, besides the chosen larger ones
MaxBits == 40
\* the failing fwrite call is one of the first MaxFailAt + 1
MaxFailAt == 3

-----------------------------------------------------------------------------
(* C strings and strtol *)

\* s[i], 1-based; the terminating NUL is the empty string
CharAt(s, i) == IF i >= 1 /\ i <= Len(s) THEN SubSeq(s, i, i) ELSE ""

IsDigit(c) == c \in {"0", "1", "2", "3", "4", "5", "6", "7", "8", "9"}

DigitVal(c) ==
    CASE c = "0" -> 0 [] c = "1" -> 1 [] c = "2" -> 2 [] c = "3" -> 3
      [] c = "4" -> 4 [] c = "5" -> 5 [] c = "6" -> 6 [] c = "7" -> 7
      [] c = "8" -> 8 [] c = "9" -> 9

\* strncmp(s, prefix, Len(prefix)) == 0
HasPrefix(s, prefix) ==
    Len(s) >= Len(prefix) /\ SubSeq(s, 1, Len(prefix)) = prefix

RECURSIVE SkipSpaces(_, _)
SkipSpaces(s, i) == IF CharAt(s, i) = " " THEN SkipSpaces(s, i + 1) ELSE i

RECURSIVE Digits(_, _, _)
\* the digit run of s from i, with acc the value so far: <<value, end>>
Digits(s, i, acc) ==
    IF IsDigit(CharAt(s, i))
    THEN Digits(s, i + 1, acc * 10 + DigitVal(CharAt(s, i)))
    ELSE <<acc, i>>

\* strtol(s + i - 1, &end, 10) for an i within the string or at its NUL:
\* <<value, end>>; with no digits the value is 0 and end is i
strtol(s, i) ==
    LET j == SkipSpaces(s, i)
        neg == CharAt(s, j) = "-"
        k == IF CharAt(s, j) \in {"-", "+"} THEN j + 1 ELSE j
        d == Digits(s, k, 0)
    IN  IF d[2] = k THEN <<0, i>>
        ELSE <<IF neg THEN 0 - d[1] ELSE d[1], d[2]>>

-----------------------------------------------------------------------------
(* Strategy resolution, main() lines 134-157 *)

\* what a read past the end of argv[4] may parse to
OutOfBoundsInts == {0, 7}

\* p = algorithm + 4; integral_div = strtol(p, &p, 10);
\* error_div = strtol(p+1, &p, 10).  When the first strtol stops at the
\* string's NUL, p+1 is past the string and oob is what is parsed there.
NcoParse(name, oob) ==
    LET first == strtol(name, 5)
        p == first[2]
    IN  [kind |-> "nco",
         integral_div |-> first[1],
         error_div |-> IF p > Len(name) THEN oob ELSE strtol(name, p + 1)[1]]

RECURSIVE Scan(_, _)
\* the while loop over ALGS from entry k: the index of the first entry whose
\* name strcmp()s equal, 0 at the NULL terminator
Scan(name, k) ==
    IF k > Len(ALGS) THEN 0
    ELSE IF name = ALGS[k] THEN k
    ELSE Scan(name, k + 1)

\* the branch main() takes on the name
IsNcoName(name) == HasPrefix(name, "nco[")

NoAlg == [kind |-> "none"]

TableAlg(k) == [kind |-> "table", name |-> ALGS[k]]

-----------------------------------------------------------------------------
(* The bitcell buffer *)

Pow2(k) == CASE k = 0 -> 1 [] k = 1 -> 2 [] k = 2 -> 4 [] k = 3 -> 8
             [] k = 4 -> 16 [] k = 5 -> 32 [] k = 6 -> 64 [] k = 7 -> 128
             [] k = 8 -> 256

\* byte b of the bit stream a strategy decodes under pattern pat
PatByte(pat, b) ==
    CASE pat = "count" -> b % 256
      [] pat = "ones"  -> 255
      [] pat = "zeros" -> 0

\* the byte at address (uint8_t *)bc_buf + b.  malloc() leaves the memory as
\* it was (heap_byte); the strategy then overwrites bits 0..n-1 of the
\* buffer and no others.  Read only for n below the buffer's capacity.
BufByte(b) ==
    IF ~bc_filled THEN heap_byte
    ELSE LET full == decoded.n \div 8
             r == decoded.n % 8
             low == Pow2(8 - r)
         IN  IF b < full THEN PatByte(decoded.pat, b)
             ELSE IF b = full /\ r > 0
                  THEN (PatByte(decoded.pat, b) \div low) * low + (heap_byte % low)
                  ELSE heap_byte

(* A uint32_t is the tuple of its 4 bytes, most significant first. *)

\* bc_buf[i] as the host loads it
LoadWord(i) ==
    IF hostLE
    THEN <<BufByte(4*i + 3), BufByte(4*i + 2), BufByte(4*i + 1), BufByte(4*i)>>
    ELSE <<BufByte(4*i), BufByte(4*i + 1), BufByte(4*i + 2), BufByte(4*i + 3)>>

be32toh(w) == IF hostLE THEN <<w[4], w[3], w[2], w[1]>> ELSE w

\* w & 1
LowBit(w) == w[4] % 2

\* w >> 1
Shr1(w) == << w[1] \div 2,
              (w[1] % 2) * 128 + w[2] \div 2,
              (w[2] % 2) * 128 + w[3] \div 2,
              (w[3] % 2) * 128 + w[4] \div 2 >>

-----------------------------------------------------------------------------
(* The serializer's arithmetic, main() lines 165-237 *)

\* the check with > for >=
OverflowsOffByOne(n) == n \div 4 > BC_BUF_SIZE_BYTES

\* bc_prod / 4 >= BC_BUF_SIZE_BYTES
Overflows(n) == n \div 4 >= BC_BUF_SIZE_BYTES

\* size_t bc_bytes = (bc_prod + 7) / 8
BcBytes(n) == (n + 7) \div 8

\* size_t bc_words = bc_bytes / 4
BcWords(n) == BcBytes(n) \div 4

\* const uint8_t header[]
Header(rate) == << 72, 88, 67, 80, 73, 67, 70, 69,
                   0, 1, 1, 255, rate % 256, 1, 0, 0, 7, 0, 1, 0 >>

\* const uint8_t track_list[]
TrackList(n) ==
    LET track_data_length_bytes == BcBytes(n) * 2
    IN  << 2, 0, track_data_length_bytes % 256,
           (track_data_length_bytes \div 256) % 256 >>

\* the bytes filled in the opposite order
ByteIdxMirrored(jj) == 3 - jj \div 8

\* int byte_idx = jj / 8
ByteIdx(jj) == jj \div 8

\* bits_out[byte_idx] << 1 | bit, stored into a uint8_t
ShiftIn(old, bit) == (old * 2 + bit) % 256

RECURSIVE BitLoop(_, _, _)
\* for (jj = 31; jj >= 0; --jj, bits_left_to_right >>= 1), from jj on, with
\* out the array bits_out, indexed 0..3
BitLoop(jj, w, out) ==
    IF jj < 0 THEN out
    ELSE BitLoop(jj - 1, Shr1(w),
                 [out EXCEPT ![ByteIdx(jj)] = ShiftIn(out[ByteIdx(jj)], LowBit(w))])

\* bits_out after the loop, from the word and the array's contents before it
BitsOut(w, stack) ==
    LET out == BitLoop(31, w, [k \in 0..3 |-> stack[k + 1]])
    IN  <<out[0], out[1], out[2], out[3]>>

\* the words stored one after the other
OffsetContiguous(i) == 1024 + i * 4

\* long offset = 0x400 + (block_number * 512) + (byte_number % 256)
Offset(i) ==
    LET byte_number == i * 4
        block_number == byte_number \div 256
    IN  1024 + (block_number * 512) + (byte_number % 256)

\* the file after fwrite() of bytes at pos
FileWrite(f, pos, bytes) ==
    [o \in pos .. pos + Len(bytes) - 1 |-> bytes[o - pos + 1]] @@ f

-----------------------------------------------------------------------------
(* The inputs of a run *)

Names == {"nco[4,8]", "ff_v341", "ff_v34"}

\* bit rates in kbps; 0, which main() divides by at line 131, is left out
Rates == {250}

Patterns == {"count", "ones"}

\* the values uninitialised heap bytes take
HeapBytes == {0, 165}

\* the values the uninitialised array bits_out takes
StackWords == {<<0, 0, 0, 0>>, <<255, 255, 255, 255>>, <<165, 90, 1, 128>>}

\* a track of 129 words, which crosses two block boundaries
LongCounts == {129 * 32}

\* bit counts around a quarter, a half and the whole of the buffer's bits
HugeCounts == {4 * BC_BUF_SIZE_BYTES, 8 * BC_BUF_SIZE_BYTES - 8,
               8 * BC_BUF_SIZE_BYTES - 7, 8 * BC_BUF_SIZE_BYTES}

BitCounts == (0 .. MaxBits) \cup LongCounts \cup HugeCounts

\* the smallest bit count whose doubled byte count needs more than 16 bits
WideCounts == {32768 * 8 - 7}

\* every registered name, names of the NCO form and names near both
AllNames == {ALGS[k] : k \in 1 .. Len(ALGS)} \cup
            {"nco[4,8]", "nco[12,3]", "nco[", "nco[x", "nco[4",
             "nco[4,", "nco[4;8", "nco", "", "FF_V341", "ff_v34", "ff_v3411",
             "nco_715K", "fdc9216 "}

InitWith(names, counts, patterns, heaps, fails) ==
    /\ algorithm \in names
    /\ hfe_bit_rate_kbps \in Rates
    /\ hostLE \in BOOLEAN
    /\ decoded \in [n : counts, pat : patterns]
    /\ heap_byte \in heaps
    /\ fail_at \in fails
    /\ pc = "open_in"
    /\ ff_sample_fd = "unopened"
    /\ ff_samples = "none"
    /\ bc_buf = "none"
    /\ bc_filled = FALSE
    /\ alg = NoAlg
    /\ invoked = <<>>
    /\ bc_prod = -1
    /\ hfe_fd = "unopened"
    /\ hfe_file = <<>>
    /\ hfe_pos = 0
    /\ hfe_nwrites = 0
    /\ ii = 0
    /\ bits_out = <<0, 0, 0, 0>>
    /\ word_pos = -1
    /\ words_stored = 0
    /\ exit_code = -1
    /\ error = ""

Init == InitWith(Names, BitCounts, Patterns, HeapBytes, -1 .. MaxFailAt)

InitWide == InitWith({"ff_v341"}, WideCounts, {"count"}, {165}, {-1})

InitNames == InitWith(AllNames, {0, 64}, {"count"}, {165}, {-1})

-----------------------------------------------------------------------------
(* main() *)

inputs == <<algorithm, hfe_bit_rate_kbps, hostLE, decoded, heap_byte, fail_at>>
input_side == <<ff_sample_fd, ff_samples>>
decode_side == <<bc_buf, bc_filled, alg, invoked, bc_prod>>
output_side == <<hfe_fd, hfe_file, hfe_pos, hfe_nwrites, ii, bits_out,
                 word_pos, words_stored>>

\* return code, with the failure it reports
Return(code, err) == pc' = "done" /\ exit_code' = code /\ error' = err

Goto(label) == pc' = label /\ UNCHANGED <<exit_code, error>>

\* lines 78-84: fopen(ff_sample_path, "rb")
OpenInput ==
    /\ pc = "open_in"
    /\ \E ok \in BOOLEAN :
         IF ok THEN ff_sample_fd' = "open" /\ Goto("seek_end")
         ELSE UNCHANGED ff_sample_fd /\ Return(1, "InputError")
    /\ UNCHANGED <<inputs, ff_samples, decode_side, output_side>>

\* lines 86-91: fseek(ff_sample_fd, 0, SEEK_END)
SeekEnd ==
    /\ pc = "seek_end"
    /\ \E ok \in BOOLEAN :
         IF ok THEN Goto("tell") ELSE Return(1, "InputError")
    /\ UNCHANGED <<inputs, input_side, decode_side, output_side>>

\* lines 92-98: ftell(ff_sample_fd), rewind
Tell ==
    /\ pc = "tell"
    /\ \E ok \in BOOLEAN :
         IF ok THEN Goto("alloc_samples") ELSE Return(1, "InputError")
    /\ UNCHANGED <<inputs, input_side, decode_side, output_side>>

\* lines 100-107: calloc(ff_sample_count, sizeof(uint16_t))
AllocSamples ==
    /\ pc = "alloc_samples"
    /\ \E ok \in BOOLEAN :
         IF ok THEN ff_samples' = "allocated" /\ Goto("read")
         ELSE UNCHANGED ff_samples /\ Return(1, "InputError")
    /\ UNCHANGED <<inputs, ff_sample_fd, decode_side, output_side>>

\* lines 109-123: fread of every sample, then fclose(ff_sample_fd)
ReadSamples ==
    /\ pc = "read"
    /\ \E ok \in BOOLEAN :
         IF ok THEN ff_sample_fd' = "closed" /\ Goto("alloc_buf")
         ELSE UNCHANGED ff_sample_fd /\ Return(1, "InputError")
    /\ UNCHANGED <<inputs, ff_samples, decode_side, output_side>>

\* lines 129-132: malloc(BC_BUF_SIZE_BYTES), unchecked
AllocBuf ==
    /\ pc = "alloc_buf"
    /\ \E ok \in BOOLEAN : bc_buf' = IF ok THEN "allocated" ELSE "null"
    /\ Goto("resolve")
    /\ UNCHANGED <<inputs, input_side, bc_filled, alg, invoked, bc_prod,
                   output_side>>

\* lines 134-139 and 143-157: the strategy the name selects
Resolve ==
    /\ pc = "resolve"
    /\ IF IsNcoName(algorithm)
       THEN \E oob \in OutOfBoundsInts :
              alg' = NcoParse(algorithm, oob) /\ Goto("invoke")
       ELSE LET k == Scan(algorithm, 1)
            IN  IF k = 0
                THEN UNCHANGED alg /\ Return(1, "UnknownAlgorithm")
                ELSE alg' = TableAlg(k) /\ Goto("invoke")
    /\ UNCHANGED <<inputs, input_side, bc_buf, bc_filled, invoked, bc_prod,
                   output_side>>

\* lines 140 and 160: bc_prod = the strategy's count.  A strategy that
\* decodes any bit stores it through bc_buf, which ends the run when
\* malloc() returned NULL.
Invoke ==
    /\ pc = "invoke"
    /\ invoked' = Append(invoked, alg)
    /\ IF bc_buf = "null" /\ decoded.n > 0
       THEN /\ pc' = "crashed"
            /\ UNCHANGED <<bc_filled, bc_prod, exit_code, error>>
       ELSE /\ bc_filled' = TRUE
            /\ bc_prod' = decoded.n
            /\ Goto("check")
    /\ UNCHANGED <<inputs, input_side, bc_buf, alg, output_side>>

\* lines 164-169: the overflow check
Check ==
    /\ pc = "check"
    /\ IF Overflows(bc_prod) THEN Return(1, "BufferOverflow")
       ELSE Goto("open_out")
    /\ UNCHANGED <<inputs, input_side, decode_side, output_side>>

\* lines 175-181: fopen(hfe_path, "w")
OpenOutput ==
    /\ pc = "open_out"
    /\ \E ok \in BOOLEAN :
         IF ok THEN hfe_fd' = "open" /\ Goto("header")
         ELSE UNCHANGED hfe_fd /\ Return(1, "OutputError")
    /\ UNCHANGED <<inputs, input_side, decode_side, hfe_file, hfe_pos,
                   hfe_nwrites, ii, bits_out, word_pos, words_stored>>

\* fwrite(bytes, Len(bytes), 1, hfe_fd) with the stream at pos; its result
\* is not looked at.  The call the device fails stores nothing.  An fseek
\* to an offset of a regular file fails only in flushing what was written
\* before it, which is that write failing.
WriteFails == hfe_nwrites = fail_at

Fwrite(pos, bytes) ==
    /\ hfe_nwrites' = hfe_nwrites + 1
    /\ IF WriteFails
       THEN hfe_file' = hfe_file /\ hfe_pos' = pos
       ELSE /\ hfe_file' = FileWrite(hfe_file, pos, bytes)
            /\ hfe_pos' = pos + Len(bytes)

\* lines 183-205: the header
WriteHeader ==
    /\ pc = "header"
    /\ Fwrite(hfe_pos, Header(hfe_bit_rate_kbps))
    /\ Goto("track_list")
    /\ UNCHANGED <<inputs, input_side, decode_side, hfe_fd, ii, bits_out,
                   word_pos, words_stored>>

\* lines 207-216: fseek(hfe_fd, 0x200, SEEK_SET), the track list
WriteTrackList ==
    /\ pc = "track_list"
    /\ Fwrite(512, TrackList(bc_prod))
    /\ Goto("track_data")
    /\ UNCHANGED <<inputs, input_side, decode_side, hfe_fd, ii, bits_out,
                   word_pos, words_stored>>

\* lines 219-238: one turn of the loop over the words
WriteWord ==
    /\ pc = "track_data"
    /\ ii < BcWords(bc_prod)
    /\ \E stack \in StackWords :
         LET bits_left_to_right == be32toh(LoadWord(ii))
             out == BitsOut(bits_left_to_right, stack)
         IN  /\ bits_out' = out
             /\ word_pos' = Offset(ii)
             /\ Fwrite(Offset(ii), out)
    /\ words_stored' = IF WriteFails THEN words_stored ELSE words_stored + 1
    /\ ii' = ii + 1
    /\ Goto("track_data")
    /\ UNCHANGED <<inputs, input_side, decode_side, hfe_fd>>

\* lines 219 and 240-242: the loop ends, fclose(hfe_fd), return 0
Close ==
    /\ pc = "track_data"
    /\ ~(ii < BcWords(bc_prod))
    /\ hfe_fd' = "closed"
    /\ Return(0, "")
    /\ UNCHANGED <<inputs, input_side, decode_side, hfe_file, hfe_pos,
                   hfe_nwrites, ii, bits_out, word_pos, words_stored>>

Next ==
    \/ OpenInput \/ SeekEnd \/ Tell \/ AllocSamples \/ ReadSamples
    \/ AllocBuf \/ Resolve \/ Invoke \/ Check \/ OpenOutput
    \/ WriteHeader \/ WriteTrackList \/ WriteWord \/ Close

Spec == Init /\ [][Next]_vars

\* runs whose track length does not fit the track list's 16-bit field
SpecWide == InitWide /\ [][Next]_vars

\* runs over the strategy names
SpecNames == InitNames /\ [][Next]_vars

-----------------------------------------------------------------------------
(* The claims *)

\* main() has returned or the process has been killed
Terminated == pc \in {"done", "crashed"}

\* the overflow check has been made
Checked == bc_prod >= 0 /\ pc # "check"

\* ceil(n / 8)
CeilBytes(n) == (n + 7) \div 8

\* bit j (0 the least significant) of byte b
BitOf(b, j) == (b \div Pow2(j)) % 2

\* the last fwrite call stored its bytes
LastWriteStored == hfe_nwrites - 1 # fail_at

\* a data word has been serialized; its index is ii - 1
WordDone == word_pos # -1

\* C1: the run fails with BufferOverflow if and only if the byte-rounded size
\* of the returned bit count, ceil(n/8), is at least BC_BUF_SIZE_BYTES.
C1_OverflowIffBytesReachCapacity ==
    Checked =>
        ((error = "BufferOverflow") <=> (CeilBytes(bc_prod) >= BC_BUF_SIZE_BYTES))

\* the container holds its header, its track descriptor and every data word
ContainerComplete ==
    /\ hfe_fd = "closed"
    /\ (0 .. 19) \subseteq DOMAIN hfe_file
    /\ (512 .. 515) \subseteq DOMAIN hfe_file
    /\ words_stored = BcWords(bc_prod)

ContainerAbsent == hfe_fd = "unopened" /\ DOMAIN hfe_file = {}

\* C2: whatever fails, a run ends with the output container either absent
\* or complete, never partly written.
C2_NoPartialContainer ==
    Terminated => (ContainerAbsent \/ ContainerComplete)

\* C3: the strategy is resolved, then invoked exactly once, then the overflow
\* check passes, and only then is the output file opened; a run ending with
\* UnknownAlgorithm invokes nothing and opens nothing, a run ending with
\* BufferOverflow opens nothing, and no run invokes twice.
C3_StepOrder ==
    /\ Len(invoked) <= 1
    /\ invoked # <<>> => (alg # NoAlg /\ invoked = <<alg>>)
    /\ bc_prod >= 0 => Len(invoked) = 1
    /\ hfe_fd # "unopened" =>
          /\ Len(invoked) = 1
          /\ bc_prod >= 0
          /\ bc_prod \div 4 < BC_BUF_SIZE_BYTES
    /\ error = "UnknownAlgorithm" => (invoked = <<>> /\ hfe_fd = "unopened")
    /\ error = "BufferOverflow" => hfe_fd = "unopened"
    /\ (pc = "done" /\ exit_code = 0) => (Len(invoked) = 1 /\ hfe_fd = "closed")

\* a run that resolved, invoked, passed the check, wrote and closed
C3_Witness ==
    /\ pc = "done"
    /\ exit_code = 0
    /\ hfe_fd = "closed"
    /\ invoked = <<alg>>
    /\ alg.kind = "nco"
    /\ words_stored > 0

\* C4: the little-endian length field at offsets 0x202-0x203 equals
\* 2 * ceil(n/8) for every accepted n, also when that is 65536 or more.
C4_TrackLengthField ==
    (pc \in {"track_data", "done"} /\ (514 .. 515) \subseteq DOMAIN hfe_file) =>
        hfe_file[514] + 256 * hfe_file[515] = 2 * CeilBytes(bc_prod)

\* C5: the serializer iterates over ceil(ceil(n/8) / 4) words, so the data
\* bytes written are at least ceil(n/8).
C5_WordsRoundedUp ==
    (pc = "done" /\ exit_code = 0) =>
        /\ ii = (CeilBytes(bc_prod) + 3) \div 4
        /\ fail_at = -1 => 4 * words_stored >= CeilBytes(bc_prod)

\* C6: word i is written at 0x400 + ((4i) div 256) * 512 + ((4i) mod 256),
\* which for i = 0, 63, 64, 127, 128 is 0x400, 0x4FC, 0x600, 0x6FC, 0x800;
\* every data byte is in the first half of a 512-byte block from 0x400 on and
\* no two words overlap.
C6_WordOffset ==
    /\ WordDone =>
          LET i == ii - 1
          IN  /\ word_pos = 1024 + ((4 * i) \div 256) * 512 + ((4 * i) % 256)
              /\ i = 0 => word_pos = 1024
              /\ i = 63 => word_pos = 1276
              /\ i = 64 => word_pos = 1536
              /\ i = 127 => word_pos = 1788
              /\ i = 128 => word_pos = 2048
              /\ LastWriteStored =>
                    \A k \in 0 .. 3 :
                        /\ word_pos + k \in DOMAIN hfe_file
                        /\ hfe_file[word_pos + k] = bits_out[k + 1]
    /\ \A o \in DOMAIN hfe_file : o >= 1024 => (o - 1024) % 512 < 256
    /\ Cardinality({o \in DOMAIN hfe_file : o >= 1024}) = 4 * words_stored

\* word 128 has been written at 0x800, after the words before it
C6_Witness ==
    /\ WordDone
    /\ ii = 129
    /\ word_pos = 2048
    /\ words_stored >= 128
    /\ LastWriteStored

\* C7: output byte k is the bit reversal of byte k of the big-endian word
\* (bit 7-j of the output is bit j of the source), whatever the output array
\* held before; the transform applied to its own output gives the source.
C7_BitReversal ==
    WordDone =>
        LET i == ii - 1
            src == <<BufByte(4*i), BufByte(4*i + 1), BufByte(4*i + 2),
                     BufByte(4*i + 3)>>
        IN  /\ \A k \in 1 .. 4 :
                  /\ bits_out[k] \in 0 .. 255
                  /\ \A j \in 0 .. 7 :
                        BitOf(bits_out[k], 7 - j) = BitOf(src[k], j)
            /\ \A stack \in StackWords : BitsOut(bits_out, stack) = src

\* the word of bytes 252..255 has been reversed to 63, 191, 127, 255
C7_Witness ==
    /\ WordDone
    /\ ii = 64
    /\ decoded.pat = "count"
    /\ bits_out = <<63, 191, 127, 255>>

\* s is nco[<a>,<b>] with a and b nonempty runs of decimal digits
NcoForm(s) ==
    /\ HasPrefix(s, "nco[")
    /\ CharAt(s, Len(s)) = "]"
    /\ \E c \in 6 .. Len(s) - 2 :
          /\ CharAt(s, c) = ","
          /\ \A i \in 5 .. c - 1 : IsDigit(CharAt(s, i))
          /\ \A i \in c + 1 .. Len(s) - 1 : IsDigit(CharAt(s, i))

Registered(s) == \E k \in 1 .. Len(ALGS) : ALGS[k] = s

\* the resolution has been made
Resolved == pc \notin {"open_in", "seek_end", "tell", "alloc_samples", "read",
                       "alloc_buf", "resolve"} /\ ff_sample_fd = "closed"

\* C8: nco[<a>,<b>] selects the generic NCO with a and b (nco[4,8]: 4 and 8),
\* a registered name selects its entry, and every other name, also one that
\* only begins with nco[, fails with UnknownAlgorithm and invokes nothing.
C8_NameResolution ==
    Resolved =>
        /\ algorithm = "nco[4,8]" =>
              alg = [kind |-> "nco", integral_div |-> 4, error_div |-> 8]
        /\ algorithm = "nco[12,3]" =>
              alg = [kind |-> "nco", integral_div |-> 12, error_div |-> 3]
        /\ NcoForm(algorithm) => alg.kind = "nco"
        /\ (~NcoForm(algorithm) /\ Registered(algorithm)) =>
              alg = [kind |-> "table", name |-> algorithm]
        /\ (~NcoForm(algorithm) /\ ~Registered(algorithm)) =>
              (error = "UnknownAlgorithm" /\ invoked = <<>>)

\* C9: when the strategy is invoked every word of the buffer is zero, so the
\* bits of a partly filled final word that the strategy did not write are
\* serialized as 0.
C9_BufferZeroed ==
    /\ (pc = "invoke" /\ bc_buf = "allocated") =>
          \A i \in 0 .. MaxBits \div 32 : LoadWord(i) = <<0, 0, 0, 0>>
    /\ WordDone =>
          \A p \in 0 .. 31 :
              32 * (ii - 1) + p >= bc_prod =>
                  BitOf(bits_out[p \div 8 + 1], p % 8) = 0

\* C10: a run returns holding no handle and no buffer it acquired.
C10_AllReleased ==
    pc = "done" =>
        /\ ff_sample_fd # "open"
        /\ hfe_fd # "open"
        /\ ff_samples # "allocated"
        /\ bc_buf # "allocated"

=============================================================================
